---- MODULE Spec2Model ----
(***************************************************************************)
(* A model of the two utilities of the repository:                         *)
(*   - manager.py: NetworkManager, whose get_rewards builds, trains,       *)
(*     checkpoints, reloads and evaluates one candidate network inside a   *)
(*     TensorFlow session of its own (specification Spec);                 *)
(*   - rank_architectures.py: the script that parses a CSV training        *)
(*     history, sorts the rows by score and prints them (specification     *)
(*     RankSpec).                                                          *)
(***************************************************************************)
EXTENDS Integers, Sequences, FiniteSets, TLC

(***************************************************************************)
(* Bounds of the model.                                                    *)
(***************************************************************************)
MaxCalls == 2       \* get_rewards calls in one behaviour
MaxEpochs == 2      \* largest epochs argument given to the constructor
MaxRows == 3        \* lines of the CSV file

VARIABLES
    self,           \* the NetworkManager: dataset, epochs, use_generator, monitor
    pc,             \* position inside get_rewards, "idle" between calls
    calls,          \* number of get_rewards calls started so far
    created,        \* number of tf.Session objects (and graphs) created so far
    open,           \* ids of the sessions that are open
    network_sess,   \* the local network_sess of the running call (0: none)
    kSession,       \* the session Keras was last given by K.set_session
    model,          \* the local model of the running call
    locals,         \* the locals X_val, y_val of the running call
    ckptFile,       \* the contents of weights/temp_network.h5
    ckptMonitor,    \* the monitor given to the ModelCheckpoint of the last fit
    history,        \* the per-epoch validation logs of the last fit
    trace,          \* the framework calls made by the running (or last) call
    evalCall,       \* the arguments and result of the last model.evaluate
    reward,         \* the value and outcome of the last call
    exc,            \* the exception that ended the last call, "None" if none
    rpc,            \* position of the ranking script
    csv,            \* the lines of the CSV file read so far, as fields and newline
    lines,          \* the ranking script's list `lines`
    out             \* the rows the ranking script has printed

mvars == <<self, pc, calls, created, open, network_sess, kSession, model, locals,
           ckptFile, ckptMonitor, history, trace, evalCall, reward, exc>>
rvars == <<rpc, csv, lines, out>>
vars == <<mvars, rvars>>

(***************************************************************************)
(* manager.py                                                              *)
(***************************************************************************)

\* The two shapes of dataset the constructor's docstring describes.
StaticDataset == <<"X_train", "y_train", "X_val", "y_val">>
GeneratorDataset == <<"training_generator", "validation_generator">>
Datasets == {StaticDataset, GeneratorDataset}

\* Values of the monitor argument: the two the docstring names, and one the
\* compiled model (metrics=['accuracy']) never logs.
Monitors == {"val_acc", "val_loss", "val_f1"}

\* The validation metrics one epoch can end with, as (accuracy %, loss).
Logs == {[val_acc |-> 90, val_loss |-> 2], [val_acc |-> 10, val_loss |-> 1]}

\* The action lists a controller may pass.
ActionLists == {"actions_a", "actions_b"}

\* Weights are identified by the call and the epoch that produced them, and
\* carry the validation metrics they achieve.  call = 0: no weights.
NoWeights == [call |-> 0, epoch |-> 0, val_acc |-> 0, val_loss |-> 0]
Weights(c, e, log) ==
    [call |-> c, epoch |-> e, val_acc |-> log.val_acc, val_loss |-> log.val_loss]

NoModel == [actions |-> "", compiled |-> FALSE, weights |-> NoWeights]
Unbound == "<unbound>"
NoLocals == [actions |-> "", X_val |-> Unbound, y_val |-> Unbound]
NoEval == [called |-> FALSE, X |-> "", y |-> "", loss |-> 0, acc |-> 0]
NoReward == [returned |-> FALSE, value |-> 0]

\* NetworkManager.__init__: stores its arguments.
Manager(dataset, epochs, use_generator, monitor) ==
    [dataset |-> dataset, epochs |-> epochs,
     use_generator |-> use_generator, monitor |-> monitor]


\* The metric a ModelCheckpoint is told to monitor: the static branch passes
\* self.monitor, the generator branch passes the literal 'val_acc'.
CheckpointMonitor(m) ==
    IF ~m.use_generator THEN m.monitor ELSE "val_acc"

\* ModelCheckpoint(mode='auto'): a monitor with 'acc' in its name is maximised,
\* any other is minimised.
MonitorMode(monitor) == IF monitor = "val_acc" THEN "max" ELSE "min"

\* The epoch logs hold the validation metrics of the compiled model only.
Logged(monitor) == monitor \in {"val_acc", "val_loss"}
LogValue(log, monitor) == IF monitor = "val_acc" THEN log.val_acc ELSE log.val_loss

NoBest == [set |-> FALSE, v |-> 0]
Improves(mode, current, best) ==
    \/ ~best.set
    \/ mode = "max" /\ current > best.v
    \/ mode = "min" /\ current < best.v

\* ModelCheckpoint(save_best_only=True).on_epoch_end for epochs e..n of one fit:
\* an epoch whose monitored value is missing from the logs is skipped, an epoch
\* that improves on the best value so far overwrites the file.
RECURSIVE Checkpoint(_, _, _, _, _, _)
Checkpoint(e, n, logs, monitor, call, st) ==
    IF e > n THEN st
    ELSE IF Logged(monitor)
            /\ Improves(MonitorMode(monitor), LogValue(logs[e], monitor), st.best)
         THEN Checkpoint(e + 1, n, logs, monitor, call,
                         [file |-> Weights(call, e, logs[e]),
                          best |-> [set |-> TRUE, v |-> LogValue(logs[e], monitor)],
                          saved |-> TRUE])
         ELSE Checkpoint(e + 1, n, logs, monitor, call, st)

\* NextStep with the evaluation placed before the reload of the checkpoint.
NextStepEvaluateFirst(step) ==
    CASE step = "model_fn" -> "compile"
      [] step = "compile" -> "fit"
      [] step = "fit" -> "evaluate"
      [] step = "evaluate" -> "load_weights"
      [] step = "load_weights" -> "return"

\* The order of the framework calls in the body of get_rewards.
NextStep(step) ==
    CASE step = "model_fn" -> "compile"
      [] step = "compile" -> "fit"
      [] step = "fit" -> "load_weights"
      [] step = "load_weights" -> "evaluate"
      [] step = "evaluate" -> "return"

\* WithExit for a session that is bound without a with block: leaving closes nothing.
WithExitLeaks(sessions, s) == sessions

\* `with tf.Session(...) as network_sess:` closes the session when the block is
\* left, by its end or by an exception.
WithExit(sessions, s) == sessions \ {s}

\* network_sess.close() after the block.
Close(sessions, s) == sessions \ {s}

\* Reward with the clipping the constructor's docstring mentions (clip_rewards).
RewardClipped(loss, acc) == IF acc > 5 THEN 5 ELSE acc

\* reward = acc
Reward(loss, acc) == acc

\* model.evaluate(X, y): the loss and accuracy of the model's weights.
model_evaluate(m, X, y) ==
    [called |-> TRUE, X |-> X, y |-> y,
     loss |-> m.weights.val_loss, acc |-> m.weights.val_acc]

\* An exception e leaves the with block of get_rewards and propagates to the
\* caller; tr is the trace and file the checkpoint file at that moment.
Raise(e, tr, file) ==
    /\ pc' = "idle"
    /\ exc' = e
    /\ open' = WithExit(open, network_sess)
    /\ network_sess' = 0
    /\ model' = NoModel
    /\ locals' = NoLocals
    /\ trace' = tr
    /\ ckptFile' = file
    /\ UNCHANGED <<self, calls, created, kSession, reward, rvars>>

\* NetworkManager(dataset, epochs, use_generator=..., monitor=...): a manager is
\* constructed (again) between two calls.  trace, history, ckptMonitor, evalCall,
\* reward and exc record the last call of the current manager, so they start
\* empty for a new one.
NetworkManager(dataset, epochs, use_generator, monitor) ==
    /\ pc = "idle"
    /\ self' = Manager(dataset, epochs, use_generator, monitor)
    /\ self' # self
    /\ trace' = <<>>
    /\ history' = <<>>
    /\ ckptMonitor' = ""
    /\ evalCall' = NoEval
    /\ reward' = NoReward
    /\ exc' = "None"
    /\ UNCHANGED <<pc, calls, created, open, network_sess, kSession, model, locals,
                   ckptFile, rvars>>

\* get_rewards is entered: tf.Session(graph=tf.Graph()) and K.set_session.
get_rewards(actions) ==
    /\ pc = "idle"
    /\ calls < MaxCalls
    /\ calls' = calls + 1
    /\ trace' = <<>>
    /\ history' = <<>>
    /\ ckptMonitor' = ""
    /\ evalCall' = NoEval
    /\ reward' = NoReward
    /\ model' = NoModel
    /\ \/ /\ created' = created + 1
          /\ network_sess' = created + 1
          /\ open' = open \cup {created + 1}
          /\ kSession' = created + 1
          /\ locals' = [actions |-> actions, X_val |-> Unbound, y_val |-> Unbound]
          /\ exc' = "None"
          /\ pc' = "model_fn"
       \/ /\ exc' = "FrameworkError"
          /\ pc' = "idle"
          /\ UNCHANGED <<created, network_sess, open, kSession, locals>>
    /\ UNCHANGED <<self, ckptFile, rvars>>

\* model = model_fn(actions): a model with freshly initialised weights.
model_fn ==
    /\ pc = "model_fn"
    /\ \/ \E log \in Logs :
            /\ model' = [actions |-> locals.actions, compiled |-> FALSE,
                         weights |-> Weights(calls, 0, log)]
            /\ trace' = Append(trace, "model_fn")
            /\ pc' = NextStep("model_fn")
            /\ UNCHANGED <<self, calls, created, open, network_sess, kSession, locals,
                           ckptFile, reward, exc, rvars>>
       \/ Raise("FrameworkError", Append(trace, "model_fn"), ckptFile)
    /\ UNCHANGED <<ckptMonitor, history, evalCall>>

\* model.compile(optimizer, 'categorical_crossentropy', metrics=['accuracy'])
compile ==
    /\ pc = "compile"
    /\ \/ /\ model' = [model EXCEPT !.compiled = TRUE]
          /\ trace' = Append(trace, "compile")
          /\ pc' = NextStep("compile")
          /\ UNCHANGED <<self, calls, created, open, network_sess, kSession, locals,
                         ckptFile, reward, exc, rvars>>
       \/ Raise("FrameworkError", Append(trace, "compile"), ckptFile)
    /\ UNCHANGED <<ckptMonitor, history, evalCall>>

\* The if/else of get_rewards: the dataset is unpacked and the model is trained
\* for self.epochs epochs under a ModelCheckpoint writing weights/temp_network.h5.
\* Unpacking a dataset of the other shape raises ValueError before the training.
\* The framework may fail after any number k of completed epochs.
fit ==
    /\ pc = "fit"
    /\ LET arity == IF ~self.use_generator THEN 4 ELSE 2
           monitor == CheckpointMonitor(self)
           start == [file |-> ckptFile, best |-> NoBest, saved |-> FALSE]
       IN  IF Len(self.dataset) # arity
           THEN /\ Raise("ValueError", trace, ckptFile)
                /\ UNCHANGED <<ckptMonitor, history>>
           ELSE \E logs \in [1..self.epochs -> Logs] :
                  \/ LET st == Checkpoint(1, self.epochs, logs, monitor, calls, start)
                     IN  /\ locals' = IF ~self.use_generator
                                      THEN [locals EXCEPT !.X_val = self.dataset[3],
                                                          !.y_val = self.dataset[4]]
                                      ELSE locals
                         /\ ckptMonitor' = monitor
                         /\ history' = logs
                         /\ ckptFile' = st.file
                         /\ model' = IF self.epochs = 0 THEN model
                                     ELSE [model EXCEPT !.weights =
                                             Weights(calls, self.epochs, logs[self.epochs])]
                         /\ trace' = IF st.saved THEN trace \o <<"fit", "checkpoint">>
                                     ELSE Append(trace, "fit")
                         /\ pc' = NextStep("fit")
                         /\ UNCHANGED <<self, calls, created, open, network_sess,
                                        kSession, reward, exc, rvars>>
                  \/ \E k \in 0..self.epochs :
                       LET st == Checkpoint(1, k, logs, monitor, calls, start)
                       IN  /\ Raise("FrameworkError",
                                    IF st.saved THEN trace \o <<"fit", "checkpoint">>
                                    ELSE Append(trace, "fit"), st.file)
                           /\ ckptMonitor' = monitor
                           /\ history' = SubSeq(logs, 1, k)
    /\ UNCHANGED evalCall

\* model.load_weights('weights/temp_network.h5'): fails when there is no such
\* file, and otherwise gives the model the weights the file holds.
load_weights ==
    /\ pc = "load_weights"
    /\ \/ /\ ckptFile # NoWeights
          /\ model' = [model EXCEPT !.weights = ckptFile]
          /\ trace' = Append(trace, "load_weights")
          /\ pc' = NextStep("load_weights")
          /\ UNCHANGED <<self, calls, created, open, network_sess, kSession, locals,
                         ckptFile, reward, exc, rvars>>
       \/ Raise("FrameworkError", Append(trace, "load_weights"), ckptFile)
    /\ UNCHANGED <<ckptMonitor, history, evalCall>>

\* loss, acc = model.evaluate(X_val, y_val, ...); reward = acc.  Reading a local
\* that no assignment has bound raises UnboundLocalError.
evaluate ==
    /\ pc = "evaluate"
    /\ IF locals.X_val = Unbound \/ locals.y_val = Unbound
       THEN /\ Raise("UnboundLocalError", trace, ckptFile)
            /\ UNCHANGED evalCall
       ELSE \/ LET res == model_evaluate(model, locals.X_val, locals.y_val)
               IN  /\ evalCall' = res
                   /\ reward' = [returned |-> FALSE, value |-> Reward(res.loss, res.acc)]
                   /\ trace' = Append(trace, "evaluate")
                   /\ pc' = NextStep("evaluate")
                   /\ UNCHANGED <<self, calls, created, open, network_sess, kSession,
                                  model, locals, ckptFile, exc, rvars>>
            \/ /\ Raise("FrameworkError", Append(trace, "evaluate"), ckptFile)
               /\ UNCHANGED evalCall
    /\ UNCHANGED <<ckptMonitor, history>>

\* The with block ends, network_sess.close() is called and reward is returned.
Return ==
    /\ pc = "return"
    /\ open' = Close(WithExit(open, network_sess), network_sess)
    /\ reward' = [reward EXCEPT !.returned = TRUE]
    /\ network_sess' = 0
    /\ model' = NoModel
    /\ locals' = NoLocals
    /\ pc' = "idle"
    /\ UNCHANGED <<self, calls, created, kSession, ckptFile, ckptMonitor, history,
                   trace, evalCall, exc, rvars>>

Managers ==
    {Manager(d, e, g, m) : d \in Datasets, e \in 0..MaxEpochs,
                              g \in BOOLEAN, m \in Monitors}

\* The ranking script before it has opened its file.
RankStart ==
    /\ rpc = "start"
    /\ csv = <<>>
    /\ lines = <<>>
    /\ out = <<>>

\* A manager has been constructed; no call has been made, no weights file exists.
Init ==
    /\ self \in Managers
    /\ pc = "idle"
    /\ calls = 0
    /\ created = 0
    /\ open = {}
    /\ network_sess = 0
    /\ kSession = 0
    /\ model = NoModel
    /\ locals = NoLocals
    /\ ckptFile = NoWeights
    /\ ckptMonitor = ""
    /\ history = <<>>
    /\ trace = <<>>
    /\ evalCall = NoEval
    /\ reward = NoReward
    /\ exc = "None"
    /\ RankStart

Next ==
    \/ \E m \in Managers : NetworkManager(m.dataset, m.epochs, m.use_generator, m.monitor)
    \/ \E a \in ActionLists : get_rewards(a)
    \/ model_fn
    \/ compile
    \/ fit
    \/ load_weights
    \/ evaluate
    \/ Return

Spec == Init /\ [][Next]_vars

(***************************************************************************)
(* Properties of get_rewards.                                              *)
(***************************************************************************)

\* The dataset has the shape the docstring asks for under self.use_generator.
ShapeMatches(m) == Len(m.dataset) = IF m.use_generator THEN 2 ELSE 4

\* C2: in static-dataset mode the reward of a call is exactly the accuracy that
\* model.evaluate reported, for the model's weights, on (X_val, y_val) of the
\* manager's dataset; and the value returned is that reward.
C2_RewardIsValidationAccuracy ==
    /\ (pc = "return" /\ ~self.use_generator) =>
          /\ evalCall.called
          /\ evalCall.X = self.dataset[3]
          /\ evalCall.y = self.dataset[4]
          /\ evalCall.acc = model.weights.val_acc
          /\ reward.value = evalCall.acc
    /\ reward.returned => evalCall.called /\ reward.value = evalCall.acc

C2_Witness ==
    /\ pc = "idle"
    /\ ~self.use_generator
    /\ reward.returned
    /\ reward.value = 90
    /\ evalCall.X = "X_val"

\* C3: with a dataset of the documented shape, in both modes, a call in which no
\* framework call fails ends without any other exception.
C3_ReturnsInBothModes ==
    (pc = "idle" /\ ShapeMatches(self)) => exc \in {"None", "FrameworkError"}

Order == <<"model_fn", "compile", "fit", "load_weights", "evaluate">>
IsPrefix(s, t) == Len(s) <= Len(t) /\ s = SubSeq(t, 1, Len(s))
FrameworkCalls(tr) == SelectSeq(tr, LAMBDA c : c # "checkpoint")

\* C4: the framework calls of a get_rewards call are made in the order model_fn,
\* compile, fit, load_weights, evaluate; the checkpoint is written only by fit;
\* an evaluation has the reload before it, and a reward is returned only after
\* all five calls, the evaluation last.
C4_FrameworkCallOrder ==
    /\ IsPrefix(FrameworkCalls(trace), Order)
    /\ \A i \in 1..Len(trace) : trace[i] = "checkpoint" => i > 1 /\ trace[i - 1] = "fit"
    /\ evalCall.called => \E i \in 1..Len(trace) :
                             /\ trace[i] = "load_weights"
                             /\ \E j \in (i + 1)..Len(trace) : trace[j] = "evaluate"
    /\ reward.returned => FrameworkCalls(trace) = Order
    /\ pc = "return" => evalCall.called

C4_Witness ==
    /\ pc = "idle"
    /\ reward.returned
    /\ trace = <<"model_fn", "compile", "fit", "checkpoint", "load_weights", "evaluate">>

\* C5: a running call has exactly one open session, the one it created itself
\* (the newest); between calls, after a return or after an exception, no session
\* is open; at most one session is ever open.
C5_SessionPerCall ==
    /\ Cardinality(open) <= 1
    /\ pc = "idle" => open = {} /\ network_sess = 0
    /\ pc # "idle" => open = {network_sess} /\ network_sess = created
                      /\ kSession = network_sess
    /\ created <= calls

C5_Witness ==
    /\ pc = "idle"
    /\ created >= 2
    /\ exc = "FrameworkError"
    /\ Len(trace) >= 3

\* C6: whichever the mode, the ModelCheckpoint of a training run monitors the
\* metric given as the constructor's monitor argument.
C6_CheckpointMonitorsArgument ==
    pc \in {"load_weights", "evaluate", "return"} => ckptMonitor = self.monitor

\* C7: the weights a call evaluates after load_weights were written by that same
\* call's checkpoint, at an epoch of its training that no other epoch beats on
\* the monitored metric.
C7_LoadsOwnBestEpoch ==
    pc \in {"evaluate", "return"} =>
        /\ model.weights.call = calls
        /\ model.weights.epoch \in 1..Len(history)
        /\ \A e \in 1..Len(history) :
              ~Improves(MonitorMode(ckptMonitor), LogValue(history[e], ckptMonitor),
                        [set |-> TRUE, v |-> LogValue(model.weights, ckptMonitor)])

(***************************************************************************)
(* rank_architectures.py                                                   *)
(*                                                                         *)
(* Text is a sequence of one-character strings.  A cell of a parsed row is *)
(* a string, a float or an int; a float is nan or the fraction num / den.  *)
(***************************************************************************)

StrCell(s) == [kind |-> "str", s |-> s, nan |-> FALSE, num |-> 0, den |-> 1]
FloatCell(nan, num, den) == [kind |-> "float", s |-> <<>>, nan |-> nan, num |-> num, den |-> den]
IntCell(v) == [kind |-> "int", s |-> <<>>, nan |-> FALSE, num |-> v, den |-> 1]
ErrorCell == [kind |-> "error", s |-> <<>>, nan |-> FALSE, num |-> 0, den |-> 1]

DigitChars == <<"0", "1", "2", "3", "4", "5", "6", "7", "8", "9">>
IsDigit(c) == \E i \in 1..10 : DigitChars[i] = c
DigitVal(c) == (CHOOSE i \in 1..10 : DigitChars[i] = c) - 1
AllDigits(s) == \A i \in 1..Len(s) : IsDigit(s[i])

RECURSIVE Num(_)
Num(s) == IF s = <<>> THEN 0
          ELSE 10 * Num(SubSeq(s, 1, Len(s) - 1)) + DigitVal(s[Len(s)])

RECURSIVE Pow10(_)
Pow10(n) == IF n = 0 THEN 1 ELSE 10 * Pow10(n - 1)

\* str.strip() as float() and int() apply it; "\n" is the only whitespace here.
RECURSIVE Strip(_)
Strip(s) ==
    IF s = <<>> THEN s
    ELSE IF s[1] = "\n" THEN Strip(Tail(s))
    ELSE IF s[Len(s)] = "\n" THEN Strip(SubSeq(s, 1, Len(s) - 1))
    ELSE s

Unsigned(t) == IF t # <<>> /\ t[1] \in {"-", "+"} THEN Tail(t) ELSE t
Sign(t) == IF t # <<>> /\ t[1] = "-" THEN -1 ELSE 1

\* float(text): an optional sign, then nan or a decimal numeral with at least
\* one digit; anything else is a ValueError (ErrorCell).
float(text) ==
    LET t == Strip(text)
        body == Unsigned(t)
        dots == {i \in 1..Len(body) : body[i] = "."}
    IN  IF body = <<"n", "a", "n">> THEN FloatCell(TRUE, 0, 1)
        ELSE IF dots = {} THEN
            IF body # <<>> /\ AllDigits(body)
            THEN FloatCell(FALSE, Sign(t) * Num(body), 1) ELSE ErrorCell
        ELSE LET d == CHOOSE i \in dots : TRUE
                 whole == SubSeq(body, 1, d - 1)
                 frac == SubSeq(body, d + 1, Len(body))
             IN  IF AllDigits(whole) /\ AllDigits(frac) /\ Len(whole) + Len(frac) > 0
                 THEN FloatCell(FALSE, Sign(t) * Num(whole \o frac), Pow10(Len(frac)))
                 ELSE ErrorCell

\* int(text): an optional sign and at least one digit.
int(text) ==
    LET t == Strip(text)
        body == Unsigned(t)
    IN  IF body # <<>> /\ AllDigits(body) THEN IntCell(Sign(t) * Num(body)) ELSE ErrorCell

\* line.split(',')
RECURSIVE split(_)
split(text) ==
    LET commas == {i \in 1..Len(text) : text[i] = ","}
    IN  IF commas = {} THEN <<text>>
        ELSE LET c == CHOOSE i \in commas : \A j \in commas : i <= j
             IN  <<SubSeq(text, 1, c - 1)>> \o split(SubSeq(text, c + 1, Len(text)))

\* text[:-1]
DropLast(text) == IF text = <<>> THEN text ELSE SubSeq(text, 1, Len(text) - 1)

\* IntIndices with the int-value taken for the second field of each pair.
IntIndicesSecondOfPair(n) == {i \in 1..(n - 1) : i % 2 = 0}

\* range(1, len(temp), 2): the 0-based indices converted to int.
IntIndices(n) == {i \in 1..(n - 1) : i % 2 = 1}

\* The body of the loop over the lines of the file: the list temp after the
\* split, the cut of the last character, float() on temp[0] and int() on the
\* fields of IntIndices; <<>> when float() or int() raises ValueError.
ParseLine(text) ==
    LET fields == split(text)
        n == Len(fields)
        cut == [i \in 1..n |-> IF i = n THEN DropLast(fields[i]) ELSE fields[i]]
        temp == [i \in 1..n |->
                    IF i = 1 THEN float(cut[i])
                    ELSE IF (i - 1) \in IntIndices(n) THEN int(cut[i])
                    ELSE StrCell(cut[i])]
    IN  IF \E i \in 1..n : temp[i] = ErrorCell THEN <<>> ELSE temp

\* a < b on floats: false whenever one of them is nan.
Lt(a, b) == ~a.nan /\ ~b.nan /\ a.num * b.den < b.num * a.den

\* key=lambda x: x[0]
Key(row) == row[1]

RECURSIVE Reverse(_)
Reverse(s) == IF s = <<>> THEN s ELSE Append(Reverse(Tail(s)), Head(s))

\* list.sort's count_run: the length of the run that starts the list, strictly
\* descending if desc and non-descending otherwise.
RECURSIVE RunLen(_, _, _)
RunLen(s, i, desc) ==
    IF i = Len(s) THEN i
    ELSE IF Lt(Key(s[i + 1]), Key(s[i])) = desc THEN RunLen(s, i + 1, desc)
    ELSE i

\* list.sort's binarysort: the place of pivot in the sorted s[1..r], by bisection.
RECURSIVE Bisect(_, _, _, _)
Bisect(s, pivot, l, r) ==
    LET p == l + ((r - l) \div 2)
        l2 == IF Lt(Key(pivot), Key(s[p + 1])) THEN l ELSE p + 1
        r2 == IF Lt(Key(pivot), Key(s[p + 1])) THEN p ELSE r
    IN  IF l2 < r2 THEN Bisect(s, pivot, l2, r2) ELSE l2

RECURSIVE BinarySort(_, _)
BinarySort(s, start) ==
    IF start >= Len(s) THEN s
    ELSE LET pivot == s[start + 1]
             l == Bisect(s, pivot, 0, start)
         IN  BinarySort(SubSeq(s, 1, l) \o <<pivot>> \o SubSeq(s, l + 1, start)
                            \o SubSeq(s, start + 2, Len(s)),
                        start + 1)

\* list.sort() of a list shorter than 64: the first run, reversed if it is
\* descending, then a binary insertion sort of the rest.
ListSort(s) ==
    IF Len(s) < 2 THEN s
    ELSE LET desc == Lt(Key(s[2]), Key(s[1]))
             n == RunLen(s, 2, desc)
             run == SubSeq(s, 1, n)
         IN  BinarySort((IF desc THEN Reverse(run) ELSE run)
                            \o SubSeq(s, n + 1, Len(s)), n)

\* sorted with reverse=True left out.
SortedAscending(rows) == ListSort(rows)

\* sorted(lines, key=lambda x: x[0], reverse=True): the list is reversed, sorted
\* and reversed again.
sorted(rows) == Reverse(ListSort(Reverse(rows)))

\* The texts the fields of the file are drawn from: scores float() accepts,
\* int-values, names, and the empty text.
ScoreTexts == {<<"1">>, <<"0", ".", "5">>, <<"-", "1">>, <<"n", "a", "n">>}
IntTexts == {<<"2">>}
NameTexts == {<<"x">>}
FirstFields == ScoreTexts \cup NameTexts \cup {<<>>}
RestFields ==
    UNION {{<<>>, <<I>>, <<I, N>>, <<N, I>>, <<I, N, I, N>>, <<N, I, N, I>>} :
              <<I, N>> \in IntTexts \X NameTexts}

\* The row layout of the specification's data model: a score, then pairs
\* (name, int-value).
FollowsNameValue(fields) ==
    /\ fields[1] \in ScoreTexts
    /\ Len(fields) % 2 = 1
    /\ \A i \in 2..Len(fields) :
          IF i % 2 = 0 THEN fields[i] \in NameTexts ELSE fields[i] \in IntTexts

\* The row layout the comment of the conversion loop names: a score, then
\* pairs (input id, name).
FollowsIdName(fields) ==
    /\ fields[1] \in ScoreTexts
    /\ Len(fields) % 2 = 1
    /\ \A i \in 2..Len(fields) :
          IF i % 2 = 0 THEN fields[i] \in IntTexts ELSE fields[i] \in NameTexts

\* ','.join(fields)
RECURSIVE join(_)
join(fields) ==
    IF Len(fields) = 1 THEN fields[1]
    ELSE fields[1] \o <<",">> \o join(Tail(fields))

\* os.path.exists(file) is false: the script prints its hint and exits.
MissingFile ==
    /\ rpc = "start"
    /\ rpc' = "exit"
    /\ UNCHANGED <<csv, lines, out, mvars>>

\* One turn of `for line in f`: the next line of the file holds the given fields
\* and ends with a newline (nl) or, being the last, does not.
ReadLine(fields, nl) ==
    /\ rpc \in {"start", "reading"}
    /\ Len(lines) < MaxRows
    /\ LET text == join(fields) \o (IF nl THEN <<"\n">> ELSE <<>>)
           temp == ParseLine(text)
       IN  /\ text # <<>>
           /\ csv' = Append(csv, [fields |-> fields, nl |-> nl])
           /\ IF temp = <<>>
              THEN rpc' = "error" /\ lines' = lines
              ELSE /\ lines' = Append(lines, temp)
                   /\ rpc' = IF nl THEN "reading" ELSE "parsed"
    /\ UNCHANGED <<out, mvars>>

\* The file has no further line.
EndOfFile ==
    /\ rpc \in {"start", "reading"}
    /\ rpc' = "parsed"
    /\ UNCHANGED <<csv, lines, out, mvars>>

\* float(x) of a cell: a float is itself, an int its value, a string is parsed.
ToFloat(cell) ==
    CASE cell.kind = "float" -> cell
      [] cell.kind = "int" -> FloatCell(FALSE, cell.num, 1)
      [] cell.kind = "str" -> float(cell.s)

\* lines[i][0] = float(lines[i][0]) for every row.
Refloat(rows) == [i \in 1..Len(rows) |-> [rows[i] EXCEPT ![1] = ToFloat(rows[i][1])]]

\* The float() loop and lines = sorted(...).
Sort ==
    /\ rpc = "parsed"
    /\ lines' = sorted(Refloat(lines))
    /\ rpc' = "sorted"
    /\ UNCHANGED <<csv, out, mvars>>

\* for line in lines: print(line[0], line[1:])
print_rows ==
    /\ rpc = "sorted"
    /\ out' = [i \in 1..Len(lines) |-> <<lines[i][1], Tail(lines[i])>>]
    /\ rpc' = "done"
    /\ UNCHANGED <<csv, lines, mvars>>

RankInit ==
    /\ self = Manager(StaticDataset, 0, FALSE, "val_acc")
    /\ pc = "idle"
    /\ calls = 0
    /\ created = 0
    /\ open = {}
    /\ network_sess = 0
    /\ kSession = 0
    /\ model = NoModel
    /\ locals = NoLocals
    /\ ckptFile = NoWeights
    /\ ckptMonitor = ""
    /\ history = <<>>
    /\ trace = <<>>
    /\ evalCall = NoEval
    /\ reward = NoReward
    /\ exc = "None"
    /\ RankStart

RankNext ==
    \/ MissingFile
    \/ \E first \in FirstFields, rest \in RestFields, nl \in BOOLEAN :
          ReadLine(<<first>> \o rest, nl)
    \/ EndOfFile
    \/ Sort
    \/ print_rows

RankSpec == RankInit /\ [][RankNext]_vars

(***************************************************************************)
(* Properties of the ranking script.                                       *)
(***************************************************************************)

\* a >= b on floats: false whenever one of them is nan.
Ge(a, b) == ~a.nan /\ ~b.nan /\ a.num * b.den >= b.num * a.den

NonIncreasing(rows) == \A i \in 1..(Len(rows) - 1) : Ge(rows[i][1], rows[i + 1][1])

\* C1: whenever the file parses, every printed row has a score
\* greater than or equal to the score of the row printed after it.
C1_PrintedNonIncreasing ==
    rpc = "done" => NonIncreasing(out)

\* C1, for files without a nan score: whenever the file parses and no score is nan, every printed row
\* has a score greater than or equal to the score of the row printed after it,
\* and the rows printed are the rows of the sorted list.
C1_PrintedNonIncreasingWithoutNan ==
    (rpc = "done" /\ \A i \in 1..Len(out) : ~out[i][1].nan) =>
        /\ NonIncreasing(out)
        /\ Len(out) = Len(lines)

C1_Witness ==
    /\ rpc = "done"
    /\ Len(out) = 3
    /\ Lt(out[3][1], out[2][1])
    /\ Lt(out[2][1], out[1][1])

Terminated == \A r \in 1..Len(csv) : csv[r].nl

====
